---------------------------- MODULE Spec2Model ----------------------------
(***************************************************************************)
(* Model of the photo-ranking application: the rating engine               *)
(* (calculateRankings), the matchmaking sampler of the battle arena        *)
(* (selectNextPair) and the vote / undo handlers of the application.       *)
(*                                                                         *)
(* Numbers.  The program computes with IEEE doubles.  The model keeps      *)
(* ratings and uncertainties as integers in units of 1/Unit point,         *)
(* expected scores in units of 1/EScale and powers of ten in units of      *)
(* 1/PScale, every division rounding down.  All intermediate products stay *)
(* below 2^31.                                                             *)
(***************************************************************************)
EXTENDS Integers, Sequences, FiniteSets, TLC

VARIABLES
    pc,              \* position of the running callback ("idle": none runs)
    appState,        \* App state appState: "SETUP", "BATTLE" or "LEADERBOARD"
    rawPhotos,       \* App state rawPhotos: the loaded items, as a list of ids
    matchHistory,    \* App state matchHistory: the event log
    rankedPhotos,    \* App state rankedPhotos: the snapshot handed to the arena
    currentPair,     \* BattleArena state currentPair: <<left, right>> or NoPair
    battleContext,   \* BattleArena state battleContext: its label, or Null
    lastPairRef,     \* BattleArena ref lastPairRef: the ids of the last pair
    isTransitioning, \* BattleArena state isTransitioning
    timerPending,    \* the 400 ms timer of handleChoice is running
    effectDue,       \* the arena's pair effect is due (currentPair is null)
    attempts,        \* selectNextPair local: attempts made in the retry loop
    candidate,       \* selectNextPair locals candidateA, candidateB, as a list
    ctx,             \* selectNextPair local ctx: the candidate's label, or Null
    outcome,         \* how the last call of selectNextPair ended, or "none"
    trail,           \* the log and snapshot a vote found, kept to compare an
                     \* undo against
    activeSessionId, \* App state activeSessionId: an album id, or Undefined
    storage,         \* localStorage: the item kept under each key
    lastSave,        \* the arguments of the last call of saveSession, if any
    backup,          \* the object exportData has put into its string, if any
    importResult     \* what the last call of importData returned, if any

vars == <<pc, appState, rawPhotos, matchHistory, rankedPhotos, currentPair,
          battleContext, lastPairRef, isTransitioning, timerPending, effectDue,
          attempts, candidate, ctx, outcome, trail,
          activeSessionId, storage, lastSave, backup, importResult>>

Null == "null"
NoPair == <<>>
NoTrail == [phase |-> "none", log |-> <<>>, ranked |-> <<>>]
Undefined == "undefined"


-----------------------------------------------------------------------------
(* Bounds of the model *)

MaxLen == 2        \* length of the freely chosen event lists
MaxTime == 2       \* timestamps of freely chosen events are 1..MaxTime
MaxStreak == 36    \* longest run of "A beats B" events put before one free event

-----------------------------------------------------------------------------
(* Fixed-point representation of the program's numbers *)

Unit == 1000       \* a rating or uncertainty x is kept as x * Unit
EScale == 10000    \* an expected score e is kept as e * EScale
PScale == 100000   \* a power of ten p is kept as p * PScale

Min(a, b) == IF a < b THEN a ELSE b
Max(a, b) == IF a > b THEN a ELSE b
Abs(a) == IF a < 0 THEN 0 - a ELSE a

Range(s) == {s[i] : i \in 1..Len(s)}

-----------------------------------------------------------------------------------------------------------------------------------------------------
(* rankingEngine: constants *)

INITIAL_RATING == 1000
INITIAL_UNCERTAINTY == 350
MIN_UNCERTAINTY == 40
VOLATILITY_INFLATION == 50
UNCERTAINTY_DECAY == 92       \* 0.92, in hundredths

(* Math.pow(10, x / 400) for x >= 0 given in tenths of a point: with the    *)
(* tenths below 4000 written in base 16 as h * 256 + m * 16 + l, the        *)
(* factors 10^(l / 4000), 10^(16 m / 4000) and 10^(256 h / 4000), times     *)
(* PScale, for each digit 0..15.                                            *)
Pow10Low ==
    <<100000, 100058, 100115, 100173, 100231, 100288, 100346, 100404,
      100462, 100519, 100577, 100635, 100693, 100751, 100809, 100867>>
Pow10Mid ==
    <<100000, 100925, 101859, 102802, 103753, 104713, 105682, 106660,
      107647, 108643, 109648, 110662, 111686, 112720, 113763, 114815>>
Pow10High ==
    <<100000, 115878, 134276, 155597, 180302, 208930, 242103, 280543,
      325087, 376704, 436516, 505825, 586138, 679204, 787046, 912011>>

\* a * f / PScale for a < 10 * PScale, without leaving 32 bits
MulFix(a, f) == ((a \div 1000) * f) \div 100 + ((a % 1000) * f) \div 100000

\* 10^(r / 4000) * PScale for 0 <= r < 4000
Pow10Frac(r) ==
    MulFix(MulFix(Pow10High[(r \div 256) + 1], Pow10Mid[((r \div 16) % 16) + 1]),
           Pow10Low[(r % 16) + 1])

RECURSIVE IntPow10(_)
IntPow10(q) == IF q = 0 THEN 1 ELSE 10 * IntPow10(q - 1)

\* 10^(d / 400) * PScale for a rating difference d >= 0 (in 1/Unit points)
Pow10(d) ==
    LET tenths == d \div (Unit \div 10)
    IN  IntPow10(tenths \div 4000) * Pow10Frac(tenths % 4000)

\* 1 / (1 + 10^((ratingB - ratingA) / 400)), times EScale
getExpectedScore(ratingA, ratingB) ==
    LET d == ratingB - ratingA
        e == (EScale * PScale) \div (PScale + Pow10(Abs(d)))
    IN  IF d >= 0 THEN e ELSE EScale - e

-----------------------------------------------------------------------------
(* rankingEngine: calculateRankings *)

\* faulty variant: the prior of the earlier revision, calculateUncertainty(0) = 300
InitialEntryOldPrior(id) ==
    [id |-> id,
     rating |-> INITIAL_RATING * Unit,
     matches |-> 0, wins |-> 0, losses |-> 0,
     uncertainty |-> 300 * Unit]

\* faulty variant: a photo the held snapshot knows starts from its entry there
InitialEntryFromSnapshot(id) ==
    IF \E i \in 1..Len(rankedPhotos) : rankedPhotos[i].id = id
    THEN rankedPhotos[CHOOSE i \in 1..Len(rankedPhotos) : rankedPhotos[i].id = id]
    ELSE [id |-> id,
          rating |-> INITIAL_RATING * Unit,
          matches |-> 0, wins |-> 0, losses |-> 0,
          uncertainty |-> INITIAL_UNCERTAINTY * Unit]

\* the entry photoMap.set puts for a photo
InitialEntry(id) ==
    [id |-> id,
     rating |-> INITIAL_RATING * Unit,
     matches |-> 0, wins |-> 0, losses |-> 0,
     uncertainty |-> INITIAL_UNCERTAINTY * Unit]

\* faulty variant: the inflation without its ceiling
InflateUncertaintyUncapped(u) == u + VOLATILITY_INFLATION * Unit

InflateUncertainty(u) == Min(INITIAL_UNCERTAINTY * Unit, u + VOLATILITY_INFLATION * Unit)
DecayUncertainty(u) == Max(MIN_UNCERTAINTY * Unit, (u * UNCERTAINTY_DECAY) \div 100)

\* faulty variant: the winner counts as unlikely below an even chance
isUpsetBelowHalf(Ew) == 2 * Ew < EScale

isUpset(Ew) == 4 * Ew < EScale          \* Ew < 0.25

KFactor(uncertainty) == (uncertainty * 80) \div 400

\* faulty variant: the winner moved by the loser's formula
WinnerRatingSignSlip(Rw, Kw, Ew) == Rw - (Kw * (EScale - Ew)) \div EScale

\* winner.rating = Rw + Kw * (1 - Ew)
WinnerRating(Rw, Kw, Ew) == Rw + (Kw * (EScale - Ew)) \div EScale
\* loser.rating = Rl + Kl * (0 - (1 - Ew))
LoserRating(Rl, Kl, Ew) == Rl - (Kl * (EScale - Ew)) \div EScale

UpdateUncertainty(upset, u) ==
    IF upset THEN InflateUncertainty(u) ELSE DecayUncertainty(u)

\* faulty variant: the loss is booked on the winner
UpdateStatsLossOnWinner(photoMap, w, l) ==
    LET m1 == [photoMap EXCEPT ![w].wins = @ + 1]
        m2 == [m1 EXCEPT ![w].matches = @ + 1]
        m3 == [m2 EXCEPT ![w].losses = @ + 1]
    IN  [m3 EXCEPT ![l].matches = @ + 1]

\* faulty variant: the loser's match is not counted
UpdateStatsLoserMatchMissed(photoMap, w, l) ==
    LET m1 == [photoMap EXCEPT ![w].wins = @ + 1]
        m2 == [m1 EXCEPT ![w].matches = @ + 1]
    IN  [m2 EXCEPT ![l].losses = @ + 1]

\* winner.wins += 1; winner.matches += 1; loser.losses += 1; loser.matches += 1
UpdateStats(photoMap, w, l) ==
    LET m1 == [photoMap EXCEPT ![w].wins = @ + 1]
        m2 == [m1 EXCEPT ![w].matches = @ + 1]
        m3 == [m2 EXCEPT ![l].losses = @ + 1]
    IN  [m3 EXCEPT ![l].matches = @ + 1]

\* faulty variant: an event naming one item twice is skipped as well
BothKnownAndDistinct(photoMap, match) ==
    /\ match.winnerId \in DOMAIN photoMap
    /\ match.loserId \in DOMAIN photoMap
    /\ match.winnerId # match.loserId

\* if (!winner || !loser) return;
BothKnown(photoMap, match) ==
    match.winnerId \in DOMAIN photoMap /\ match.loserId \in DOMAIN photoMap

\* faulty variant: an event whose loser is unknown still counts for its winner
ApplyMatchCreditingWinner(photoMap, match) ==
    IF match.winnerId \in DOMAIN photoMap
    THEN [photoMap EXCEPT ![match.winnerId].wins = @ + 1,
                          ![match.winnerId].matches = @ + 1]
    ELSE photoMap

\* faulty variant: the surprise is judged on the ratings the event has left
ApplyMatchJudgingAfterwards(photoMap, match) ==
    LET w == match.winnerId
        l == match.loserId
    IN  IF ~BothKnown(photoMap, match) THEN photoMap
        ELSE
        LET Rw == photoMap[w].rating
            Rl == photoMap[l].rating
            Ew == getExpectedScore(Rw, Rl)
            Kw == KFactor(photoMap[w].uncertainty)
            Kl == KFactor(photoMap[l].uncertainty)
            m1 == [photoMap EXCEPT ![w].rating = WinnerRating(Rw, Kw, Ew)]
            m2 == [m1 EXCEPT ![l].rating = LoserRating(Rl, Kl, Ew)]
            upset == isUpset(getExpectedScore(m2[w].rating, m2[l].rating))
            m3 == [m2 EXCEPT ![w].uncertainty = UpdateUncertainty(upset, @)]
            m4 == [m3 EXCEPT ![l].uncertainty = UpdateUncertainty(upset, @)]
        IN  UpdateStats(m4, w, l)

(* The body of sortedMatches.forEach.  winner and loser are references     *)
(* into the map: the assignments are applied one after the other, so that  *)
(* an event naming the same photo twice updates one entry twice.           *)
ApplyMatch(photoMap, match) ==
    LET w == match.winnerId
        l == match.loserId
    IN  IF ~BothKnown(photoMap, match) THEN photoMap
        ELSE
        LET Rw == photoMap[w].rating
            Rl == photoMap[l].rating
            Ew == getExpectedScore(Rw, Rl)
            upset == isUpset(Ew)
            Kw == KFactor(photoMap[w].uncertainty)
            Kl == KFactor(photoMap[l].uncertainty)
            m1 == [photoMap EXCEPT ![w].rating = WinnerRating(Rw, Kw, Ew)]
            m2 == [m1 EXCEPT ![l].rating = LoserRating(Rl, Kl, Ew)]
            m3 == [m2 EXCEPT ![w].uncertainty = UpdateUncertainty(upset, @)]
            m4 == [m3 EXCEPT ![l].uncertainty = UpdateUncertainty(upset, @)]
        IN  UpdateStats(m4, w, l)

(* sortedMatches.forEach over the events from..to, one after the other.    *)
(* The range is replayed in two halves, the second starting from the map    *)
(* the first has left (an empty map stays empty whatever is replayed).      *)
RECURSIVE ReplayRange(_, _, _, _)
ReplayRange(photoMap, sortedMatches, from, to) ==
    IF from > to THEN photoMap
    ELSE IF from = to THEN ApplyMatch(photoMap, sortedMatches[from])
    ELSE LET mid == (from + to) \div 2
             half == ReplayRange(photoMap, sortedMatches, from, mid)
         IN  IF DOMAIN half = {} THEN half
             ELSE ReplayRange(half, sortedMatches, mid + 1, to)

\* sortedMatches.forEach(...)
ReplayMatches(photoMap, sortedMatches) ==
    ReplayRange(photoMap, sortedMatches, 1, Len(sortedMatches))

(* The comparators handed to Array.prototype.sort: a negative result puts   *)
(* a before b.  SortSeq moves an element only before elements it is         *)
(* strictly before, so elements that compare equal keep their order, as     *)
(* they do in the stable Array.prototype.sort.                              *)
CompareTimestamp(a, b) == a.timestamp - b.timestamp
CompareRatingDesc(a, b) == b.rating - a.rating

\* faulty variant: the events are replayed in list order
SortMatchesSkipped(matches) == matches

\* faulty variant: an event goes before the events of its own timestamp
SortMatchesTiesReversed(matches) ==
    SortSeq(matches, LAMBDA a, b : CompareTimestamp(a, b) <= 0)

\* faulty variant: the values are returned in map order
SortByRatingSkipped(list) == list

\* [...matches].sort((a, b) => a.timestamp - b.timestamp)
SortMatches(matches) ==
    SortSeq(matches, LAMBDA a, b : CompareTimestamp(a, b) < 0)

\* Array.from(photoMap.values()).sort((a, b) => b.rating - a.rating)
SortByRating(list) ==
    SortSeq(list, LAMBDA a, b : CompareRatingDesc(a, b) < 0)

\* the map after the replay, before it is turned into the returned list
ReplayedMap(photos, matches) ==
    ReplayMatches([id \in Range(photos) |-> InitialEntry(id)], SortMatches(matches))

calculateRankings(photos, matches) ==
    LET photoMap == ReplayedMap(photos, matches)
    IN  SortByRating([i \in 1..Len(photos) |-> photoMap[photos[i]]])

-----------------------------------------------------------------------------
(* Inputs of the replay *)

AllPhotos == <<"A", "B", "C">>
StaleId == "Z"                       \* an id no loaded photo has
EventIds == Range(AllPhotos) \cup {StaleId}

PhotoLists == {SubSeq(AllPhotos, 1, n) : n \in 0..Len(AllPhotos)}

MatchResults == [winnerId : EventIds, loserId : EventIds, timestamp : 1..MaxTime]

RECURSIVE SeqsUpTo(_, _)
SeqsUpTo(S, n) ==
    IF n = 0 THEN {<<>>}
    ELSE LET shorter == SeqsUpTo(S, n - 1)
         IN  shorter \cup {Append(s, x) : s \in shorter, x \in S}

Streak(n) == [i \in 1..n |-> [winnerId |-> "A", loserId |-> "B", timestamp |-> 0]]

TwoPartyResults ==
    {m \in MatchResults :
        m.winnerId # m.loserId /\ {m.winnerId, m.loserId} \subseteq Range(AllPhotos)}

\* two events of the latest time followed by an earlier one
TieLogs ==
    {<<a, b, c>> : a \in {m \in TwoPartyResults : m.timestamp = MaxTime},
                   b \in {m \in TwoPartyResults : m.timestamp = MaxTime},
                   c \in {m \in TwoPartyResults : m.timestamp < MaxTime}}

ReplayLogs ==
    SeqsUpTo(MatchResults, MaxLen)
    \cup {Streak(n) \o t : n \in 1..MaxStreak, t \in SeqsUpTo(MatchResults, 1)}
    \cup TieLogs

-----------------------------------------------------------------------------
(* storageService: one item of localStorage per session.  An item is kept  *)
(* as the value its JSON text stands for; NoItem is a key never set.       *)

STORAGE_PREFIX == "portfolio_ranker_v1_"

\* the album ids a session may have; the global stream has Undefined
AlbumIds == {"album", "global"}
SessionIds == {Undefined} \cup AlbumIds

\* albumId ? `${STORAGE_PREFIX}album_${albumId}` : `${STORAGE_PREFIX}global_stream`
getKey(albumId) ==
    IF albumId \notin {Undefined, ""}
    THEN <<STORAGE_PREFIX, "album_", albumId>>
    ELSE <<STORAGE_PREFIX, "global_stream", "">>

StorageKeys == {getKey(albumId) : albumId \in SessionIds}

NoItem == <<>>
EmptyStorage == [key \in StorageKeys |-> NoItem]

\* const saved = localStorage.getItem(key); return saved ? JSON.parse(saved) : []
loadSession(store, albumId) ==
    IF store[getKey(albumId)] = NoItem THEN <<>> ELSE store[getKey(albumId)][1]

\* localStorage.setItem(getKey(albumId), JSON.stringify(history))
saveSession(store, albumId, history) ==
    [store EXCEPT ![getKey(albumId)] = <<history>>]

\* no session chosen, nothing stored, exported or imported
StoreIdle ==
    /\ activeSessionId = Undefined
    /\ storage = EmptyStorage
    /\ lastSave = <<>>
    /\ backup = <<>>
    /\ importResult = <<>>

StoreUnchanged == UNCHANGED <<activeSessionId, storage, lastSave, backup, importResult>>

-----------------------------------------------------------------------------
(* Specification of the replay alone: calculateRankings applied to inputs  *)
(* drawn from the bounded sets above.                                      *)

\* the arena as useState and useRef set it up
ArenaIdle ==
    /\ currentPair = NoPair
    /\ battleContext = Null
    /\ lastPairRef = {}
    /\ isTransitioning = FALSE
    /\ timerPending = FALSE
    /\ attempts = 0
    /\ candidate = <<>>
    /\ ctx = Null
    /\ outcome = "none"

ReplayInit ==
    /\ pc = "replay"
    /\ rawPhotos \in PhotoLists
    /\ matchHistory \in ReplayLogs
    /\ rankedPhotos = <<>>
    /\ appState = "SETUP"
    /\ effectDue = FALSE
    /\ trail = NoTrail
    /\ StoreIdle
    /\ ArenaIdle

\* faulty variant: the caller's list itself is sorted, matches.sort(...)
ReplaySortingInPlace ==
    /\ pc = "replay"
    /\ matchHistory' = SortMatches(matchHistory)
    /\ rankedPhotos' = calculateRankings(rawPhotos, matchHistory)
    /\ pc' = "idle"
    /\ UNCHANGED <<appState, rawPhotos, currentPair, battleContext,
                   lastPairRef, isTransitioning, timerPending, effectDue,
                   attempts, candidate, ctx, outcome, trail>>
    /\ StoreUnchanged

Replay ==
    /\ pc = "replay"
    /\ rankedPhotos' = calculateRankings(rawPhotos, matchHistory)
    /\ pc' = "idle"
    /\ UNCHANGED <<appState, rawPhotos, matchHistory, currentPair, battleContext,
                   lastPairRef, isTransitioning, timerPending, effectDue,
                   attempts, candidate, ctx, outcome, trail>>
    /\ StoreUnchanged

ReplayNext == Replay

ReplaySpec == ReplayInit /\ [][ReplayNext]_vars

-----------------------------------------------------------------------------
(* Properties of the replay (checked under ReplaySpec) *)

Replayed == pc = "idle"

InitialMap(photos) == [id \in Range(photos) |-> InitialEntry(id)]

\* the maps the forEach loop leaves after each of the events from..to
RECURSIVE ReplayStepsRange(_, _, _, _)
ReplayStepsRange(photoMap, sortedMatches, from, to) ==
    IF from > to THEN <<>>
    ELSE IF from = to THEN <<ApplyMatch(photoMap, sortedMatches[from])>>
    ELSE LET mid == (from + to) \div 2
             left == ReplayStepsRange(photoMap, sortedMatches, from, mid)
         IN  left \o ReplayStepsRange(left[Len(left)], sortedMatches, mid + 1, to)

\* the maps the forEach loop goes through: before the first event, after the
\* first, ..., after the last
ReplaySteps(photoMap, sortedMatches) ==
    <<photoMap>> \o ReplayStepsRange(photoMap, sortedMatches, 1, Len(sortedMatches))

Known(id) == id \in Range(rawPhotos)
UnknownParticipant(match) == ~Known(match.winnerId) \/ ~Known(match.loserId)
SelfMatch(match) == match.winnerId = match.loserId

Entry(id) == CHOOSE p \in Range(rankedPhotos) : p.id = id

\* C1: after a replay of any event list (unknown ids and self-matches
\* included) every item of the snapshot has matches = wins + losses.
C1_MatchesAreWinsPlusLosses ==
    Replayed => \A i \in 1..Len(rankedPhotos) :
        rankedPhotos[i].matches = rankedPhotos[i].wins + rankedPhotos[i].losses

\* a replay whose list holds an event with an unknown participant and a
\* self-match of a known item, which that item's counts show
C1_Witness ==
    /\ Replayed
    /\ \E i, j \in 1..Len(matchHistory) :
        /\ UnknownParticipant(matchHistory[i])
        /\ SelfMatch(matchHistory[j]) /\ Known(matchHistory[j].winnerId)
        /\ Entry(matchHistory[j].winnerId).matches = 2
        /\ Entry(matchHistory[j].winnerId).wins = 1

\* C2: after a replay every item's uncertainty lies in
\* [MIN_UNCERTAINTY, INITIAL_UNCERTAINTY].
C2_UncertaintyWithinBounds ==
    Replayed => \A i \in 1..Len(rankedPhotos) :
        /\ rankedPhotos[i].uncertainty >= MIN_UNCERTAINTY * Unit
        /\ rankedPhotos[i].uncertainty <= INITIAL_UNCERTAINTY * Unit

\* a replay that ran into both ends: an item decayed down to the floor, and an
\* item that played once and sits at the ceiling, which only the capped
\* inflation of an upset produces
C2_Witness ==
    /\ Replayed
    /\ \E i, j \in 1..Len(rankedPhotos) :
        /\ rankedPhotos[i].uncertainty = MIN_UNCERTAINTY * Unit
        /\ rankedPhotos[j].matches = 1
        /\ rankedPhotos[j].uncertainty = INITIAL_UNCERTAINTY * Unit

TimestampsDistinct(matches) ==
    \A i, j \in 1..Len(matches) : i # j => matches[i].timestamp # matches[j].timestamp

Reorderings(s) ==
    {[i \in 1..Len(s) |-> s[f[i]]] :
        f \in {g \in [1..Len(s) -> 1..Len(s)] :
                  \A i, j \in 1..Len(s) : i # j => g[i] # g[j]}}

\* the events in ascending timestamp order, for distinct timestamps: the k-th
\* is the one with k - 1 earlier events
Chronological(matches) ==
    [k \in 1..Len(matches) |->
        CHOOSE m \in Range(matches) :
            Cardinality({x \in Range(matches) : x.timestamp < m.timestamp}) = k - 1]

\* what folding a list in the order given returns
FoldedInOrder(photos, ordered) ==
    LET photoMap == ReplayMatches(InitialMap(photos), ordered)
    IN  SortByRating([i \in 1..Len(photos) |-> photoMap[photos[i]]])

\* C4: with pairwise distinct timestamps every permutation of the event list
\* yields the snapshot of the fold in ascending timestamp order.
C4_PermutationInvariance ==
    (Replayed /\ TimestampsDistinct(matchHistory)) =>
        /\ rankedPhotos = FoldedInOrder(rawPhotos, Chronological(matchHistory))
        /\ \A q \in Reorderings(matchHistory) :
               calculateRankings(rawPhotos, q) = rankedPhotos

\* a replay of a list that is not in timestamp order and whose fold in list
\* order would have given another snapshot
C4_Witness ==
    /\ Replayed
    /\ TimestampsDistinct(matchHistory)
    /\ Len(matchHistory) >= 2
    /\ matchHistory[1].timestamp > matchHistory[2].timestamp
    /\ FoldedInOrder(rawPhotos, matchHistory) # rankedPhotos

KnownOnly(matches) == SelectSeq(matches, LAMBDA m : ~UnknownParticipant(m))

\* C5: an event with an unknown participant changes no field of any item, and
\* the replay equals the replay of the list without such events.
C5_UnknownParticipantSkipped ==
    Replayed =>
        LET sorted == SortMatches(matchHistory)
            steps == ReplaySteps(InitialMap(rawPhotos), sorted)
        IN  /\ \A k \in 1..Len(sorted) :
                   UnknownParticipant(sorted[k]) => steps[k + 1] = steps[k]
            /\ rankedPhotos = calculateRankings(rawPhotos, KnownOnly(matchHistory))

\* a replay where an event with one known and one unknown participant comes
\* first and an event that is applied comes after it
C5_Witness ==
    /\ Replayed
    /\ \E i, j \in 1..Len(matchHistory) :
        /\ matchHistory[i].timestamp < matchHistory[j].timestamp
        /\ UnknownParticipant(matchHistory[i])
        /\ Known(matchHistory[i].winnerId) \/ Known(matchHistory[i].loserId)
        /\ ~UnknownParticipant(matchHistory[j])
        /\ Entry(matchHistory[j].winnerId).wins = 1

\* C7: the replay of the empty list returns every item at the prior.
C7_EmptyReplay ==
    (Replayed /\ matchHistory = <<>>) =>
        /\ Len(rankedPhotos) = Len(rawPhotos)
        /\ \A i \in 1..Len(rankedPhotos) :
            /\ rankedPhotos[i].id = rawPhotos[i]
            /\ rankedPhotos[i].rating = INITIAL_RATING * Unit
            /\ rankedPhotos[i].uncertainty = INITIAL_UNCERTAINTY * Unit
            /\ rankedPhotos[i].matches = 0
            /\ rankedPhotos[i].wins = 0
            /\ rankedPhotos[i].losses = 0

C7_Witness ==
    Replayed /\ matchHistory = <<>> /\ Len(rankedPhotos) = Len(AllPhotos)

IndexOf(photos, id) == CHOOSE i \in 1..Len(photos) : photos[i] = id

\* C8, as the claim states it: the returned list is in input-item order.
C8_InputOrder ==
    Replayed => \A i \in 1..Len(rankedPhotos) : rankedPhotos[i].id = rawPhotos[i]

\* C8, amended: the returned list holds the input items ordered by rating,
\* highest first, items of equal rating in input-item order.
C8_RatingOrder ==
    Replayed =>
        /\ Len(rankedPhotos) = Len(rawPhotos)
        /\ {rankedPhotos[i].id : i \in 1..Len(rankedPhotos)} = Range(rawPhotos)
        /\ \A i, j \in 1..Len(rankedPhotos) : i < j =>
            /\ rankedPhotos[i].rating >= rankedPhotos[j].rating
            /\ rankedPhotos[i].rating = rankedPhotos[j].rating =>
                   IndexOf(rawPhotos, rankedPhotos[i].id)
                       < IndexOf(rawPhotos, rankedPhotos[j].id)

\* a replay that moved the first input item away from the front and left two
\* items at equal rating
C8_Witness ==
    /\ Replayed
    /\ Len(rankedPhotos) = Len(AllPhotos)
    /\ rankedPhotos[1].id # rawPhotos[1]
    /\ \E i \in 1..Len(rankedPhotos) - 1 :
           rankedPhotos[i].rating = rankedPhotos[i + 1].rating

\* C10: every event between two distinct known items raises the winner's
\* rating, lowers the loser's and leaves every other item as it was; from the
\* prior, "A beats B" gives A.rating > 1000 > B.rating, A.wins = 1,
\* B.losses = 1 and C untouched.
C10_WinnerUpLoserDown ==
    Replayed =>
        LET sorted == SortMatches(matchHistory)
            steps == ReplaySteps(InitialMap(rawPhotos), sorted)
        IN  /\ \A k \in 1..Len(sorted) :
                (~UnknownParticipant(sorted[k]) /\ ~SelfMatch(sorted[k])) =>
                    /\ steps[k + 1][sorted[k].winnerId].rating
                           > steps[k][sorted[k].winnerId].rating
                    /\ steps[k + 1][sorted[k].loserId].rating
                           < steps[k][sorted[k].loserId].rating
                    /\ \A id \in Range(rawPhotos)
                                   \ {sorted[k].winnerId, sorted[k].loserId} :
                           steps[k + 1][id] = steps[k][id]
            /\ (/\ rawPhotos = AllPhotos
                /\ Len(matchHistory) = 1
                /\ matchHistory[1].winnerId = "A"
                /\ matchHistory[1].loserId = "B") =>
                    /\ Entry("A").rating > INITIAL_RATING * Unit
                    /\ Entry("B").rating < INITIAL_RATING * Unit
                    /\ Entry("A").wins = 1
                    /\ Entry("B").losses = 1
                    /\ Entry("C") = InitialEntry("C")

\* the replay of "A beats B" alone over A, B and C
C10_Witness ==
    /\ Replayed
    /\ rawPhotos = AllPhotos
    /\ Len(matchHistory) = 1
    /\ matchHistory[1].winnerId = "A"
    /\ matchHistory[1].loserId = "B"
    /\ Entry("A").wins = 1

-----------------------------------------------------------------------------
(* BattleArena: selectNextPair *)

MAX_ATTEMPTS == 5

\* the values Math.random() returns, in thousandths: one on each side of
\* every threshold it is compared with, and the thresholds themselves
RandomDraws == {50, 100, 150, 200, 600}

\* faulty variant: a single item is taken to be enough
InsufficientItemsOffByOne(photos) == Len(photos) < 1

\* if (photos.length < 2) return;
InsufficientItems(photos) == Len(photos) < 2

\* photos.filter(p => !!p)
ValidPhotos(photos) == SelectSeq(photos, LAMBDA p : p # <<>>)

UnratedPhotos(validPhotos) == SelectSeq(validPhotos, LAMBDA p : p.matches = 0)

\* faulty variant: the anchors of the earlier revision, ten matches or more
AnchorsOfTenMatches(validPhotos) ==
    SelectSeq(validPhotos,
              LAMBDA p : p.matches >= 10 /\ Abs(p.rating - 1000 * Unit) < 150 * Unit)

\* p.matches >= 3 && Math.abs(p.rating - 1000) < 150
Anchors(validPhotos) ==
    SelectSeq(validPhotos,
              LAMBDA p : p.matches >= 3 /\ Abs(p.rating - 1000 * Unit) < 150 * Unit)

OpponentPool(validPhotos, candidateA) ==
    IF Len(Anchors(validPhotos)) > 0 THEN Anchors(validPhotos)
    ELSE SelectSeq(validPhotos, LAMBDA p : p.id # candidateA.id /\ p.matches > 0)

\* faulty variant: the last pool is not cleared of candidateA
FinalPoolUnfiltered(validPhotos, candidateA) ==
    IF Len(OpponentPool(validPhotos, candidateA)) > 0
    THEN OpponentPool(validPhotos, candidateA)
    ELSE validPhotos

FinalPool(validPhotos, candidateA) ==
    IF Len(OpponentPool(validPhotos, candidateA)) > 0
    THEN OpponentPool(validPhotos, candidateA)
    ELSE SelectSeq(validPhotos, LAMBDA p : p.id # candidateA.id)

CompareUncertaintyDesc(a, b) == b.uncertainty - a.uncertainty

\* [...validPhotos].sort((a, b) => b.uncertainty - a.uncertainty)
UncertainPhotos(validPhotos) ==
    SortSeq(validPhotos, LAMBDA a, b : CompareUncertaintyDesc(a, b) < 0)

\* faulty variant: side A is drawn from the whole list
TopCandidatesUncut(validPhotos) == UncertainPhotos(validPhotos)

\* uncertainPhotos.slice(0, Math.min(10, uncertainPhotos.length))
TopCandidates(validPhotos) ==
    SubSeq(UncertainPhotos(validPhotos), 1, Min(10, Len(validPhotos)))

(* The loop over validPhotos that keeps the photo closest in rating to      *)
(* candidateA, from the k-th photo on; best is <<>> (minDiff is Infinity)   *)
(* or holds bestMatch.                                                      *)
RECURSIVE ClosestFrom(_, _, _, _)
ClosestFrom(validPhotos, candidateA, k, best) ==
    IF k > Len(validPhotos) THEN best
    ELSE LET p == validPhotos[k]
         IN  IF p.id = candidateA.id
             THEN ClosestFrom(validPhotos, candidateA, k + 1, best)
             ELSE IF best = <<>>
                     \/ Abs(p.rating - candidateA.rating)
                            < Abs(best[1].rating - candidateA.rating)
             THEN ClosestFrom(validPhotos, candidateA, k + 1, <<p>>)
             ELSE ClosestFrom(validPhotos, candidateA, k + 1, best)

BestMatch(validPhotos, candidateA) == ClosestFrom(validPhotos, candidateA, 1, <<>>)

\* bestMatch || validPhotos.find(p => p.id !== candidateA.id), as a list:
\* empty where the code is left with undefined
RefinementOpponent(validPhotos, candidateA) ==
    IF BestMatch(validPhotos, candidateA) # <<>>
    THEN BestMatch(validPhotos, candidateA)
    ELSE SubSeq(SelectSeq(validPhotos, LAMBDA p : p.id # candidateA.id), 1, 1)

\* faulty variant: the rating gap is looked at first
RefinementLabelGapFirst(candidateA, candidateB) ==
    IF Abs(candidateA.rating - candidateB.rating) < 20 * Unit
    THEN "QUALITY TIE-BREAKER"
    ELSE IF candidateA.uncertainty > 150 * Unit \/ candidateB.uncertainty > 150 * Unit
    THEN "VERIFYING VOLATILITY"
    ELSE "REFINEMENT"

RefinementLabel(candidateA, candidateB) ==
    IF candidateA.uncertainty > 150 * Unit \/ candidateB.uncertainty > 150 * Unit
    THEN "VERIFYING VOLATILITY"
    ELSE IF Abs(candidateA.rating - candidateB.rating) < 20 * Unit
    THEN "QUALITY TIE-BREAKER"
    ELSE "REFINEMENT"

\* faulty variant: the placement test admits r = 0.1
PolicyPlacingAtTenth(unratedPhotos, r) ==
    IF Len(unratedPhotos) > 0 /\ r >= 100 THEN "placement"
    ELSE IF r < 200 THEN "exploration"
    ELSE "refinement"

(* The branch an attempt takes on the draw r (in thousandths):              *)
(* if (unratedPhotos.length > 0 && r > 0.1) ... else if (r < 0.2) ... else  *)
Policy(unratedPhotos, r) ==
    IF Len(unratedPhotos) > 0 /\ r > 100 THEN "placement"
    ELSE IF r < 200 THEN "exploration"
    ELSE "refinement"

\* faulty variant: one id shared with the last pair counts as a repeat
isRepeatEitherSide(candidateA, candidateB) ==
    candidateA.id \in lastPairRef \/ candidateB.id \in lastPairRef

isRepeat(candidateA, candidateB) ==
    candidateA.id \in lastPairRef /\ candidateB.id \in lastPairRef

\* what selectNextPair leaves alone
AppUnchanged ==
    UNCHANGED <<appState, rawPhotos, matchHistory, rankedPhotos, isTransitioning,
                timerPending, trail, activeSessionId, storage, lastSave, backup,
                importResult>>

(* The end of selectNextPair: lastPairRef, the pair in one of the two       *)
(* orders, the context.  n is the number of attempts made.                  *)
Present(photoA, photoB, context, n) ==
    /\ lastPairRef' = {photoA.id, photoB.id}
    /\ \E r \in RandomDraws :
           currentPair' = IF r > 500 THEN <<photoA, photoB>> ELSE <<photoB, photoA>>
    /\ battleContext' = context
    /\ pc' = "idle"
    /\ attempts' = n
    /\ candidate' = <<photoA, photoB>>
    /\ ctx' = context
    /\ effectDue' = FALSE
    /\ outcome' = "pair"

\* faulty variant: a repeat is passed over on the last attempt as well
ConsiderWithoutLastAttempt(candidateA, candidateB, label, n) ==
    IF ~isRepeat(candidateA, candidateB)
    THEN Present(candidateA, candidateB, label, n)
    ELSE /\ pc' = "select"
         /\ attempts' = n
         /\ candidate' = <<candidateA, candidateB>>
         /\ ctx' = label
         /\ UNCHANGED <<currentPair, battleContext, lastPairRef, effectDue, outcome>>

(* The end of an attempt: the candidate is taken unless it repeats the      *)
(* last pair and attempts are left.                                         *)
Consider(candidateA, candidateB, label, n) ==
    IF ~isRepeat(candidateA, candidateB) \/ n = MAX_ATTEMPTS
    THEN Present(candidateA, candidateB, label, n)
    ELSE /\ pc' = "select"
         /\ attempts' = n
         /\ candidate' = <<candidateA, candidateB>>
         /\ ctx' = label
         /\ UNCHANGED <<currentPair, battleContext, lastPairRef, effectDue, outcome>>

\* faulty variant: the snapshot of the render in which the vote was cast,
\* kept by a selectNextPair that the vote's timer calls from its closure
arenaPhotosOfTimerClosure ==
    IF trail.phase = "voted" THEN trail.ranked ELSE rankedPhotos

\* the arena's prop: photos={rankedPhotos}, as of the latest render
arenaPhotos == rankedPhotos

(* The arena's effect with currentPair null: it calls selectNextPair, which *)
(* returns at once on fewer than two photos and enters its loop otherwise.  *)
PairEffect ==
    /\ pc = "idle"
    /\ appState = "BATTLE"
    /\ effectDue
    /\ currentPair = NoPair
    /\ effectDue' = FALSE
    /\ IF InsufficientItems(arenaPhotos)
       THEN /\ outcome' = "returned"
            /\ UNCHANGED <<pc, attempts, candidate, ctx>>
       ELSE /\ pc' = "select"
            /\ attempts' = 0
            /\ candidate' = <<>>
            /\ ctx' = Null
            /\ UNCHANGED outcome
    /\ UNCHANGED <<currentPair, battleContext, lastPairRef>>
    /\ AppUnchanged

(* One pass of the retry loop, up to the inner loop of the exploration      *)
(* branch; with no attempt left and nothing taken, the safety fallback.     *)
SelectAttempt ==
    /\ pc = "select"
    /\ LET validPhotos == ValidPhotos(arenaPhotos)
           unratedPhotos == UnratedPhotos(validPhotos)
           topCandidates == TopCandidates(validPhotos)
           n == attempts + 1
       IN  IF attempts < MAX_ATTEMPTS
           THEN \E r \in RandomDraws :
                  IF Policy(unratedPhotos, r) = "placement"
                  THEN \E i \in 1..Len(unratedPhotos) :
                         \E j \in 1..Len(FinalPool(validPhotos, unratedPhotos[i])) :
                            Consider(unratedPhotos[i],
                                     FinalPool(validPhotos, unratedPhotos[i])[j],
                                     "CLASSIFYING NEW ASSET", n)
                  ELSE IF Policy(unratedPhotos, r) = "exploration"
                  THEN \E idxA, idxB \in 1..Len(validPhotos) :
                         IF idxA = idxB
                         THEN /\ pc' = "explore"
                              /\ attempts' = n
                              /\ candidate' = <<validPhotos[idxA]>>
                              /\ ctx' = Null
                              /\ UNCHANGED <<currentPair, battleContext, lastPairRef,
                                             effectDue, outcome>>
                         ELSE Consider(validPhotos[idxA], validPhotos[idxB],
                                       "EXPLORATION MODE", n)
                  ELSE \E i \in 1..Len(topCandidates) :
                         \E j \in 1..Len(RefinementOpponent(validPhotos, topCandidates[i])) :
                            Consider(topCandidates[i],
                                     RefinementOpponent(validPhotos, topCandidates[i])[j],
                                     RefinementLabel(
                                         topCandidates[i],
                                         RefinementOpponent(validPhotos, topCandidates[i])[j]),
                                     n)
           ELSE \E idxA, idxB \in 1..Len(validPhotos) :
                  /\ idxA # idxB
                  /\ Present(validPhotos[idxA], validPhotos[idxB], "FALLBACK", attempts)
    /\ AppUnchanged

\* while (idxA === idxB) idxB = Math.floor(Math.random() * validPhotos.length)
ExploreRedraw ==
    /\ pc = "explore"
    /\ LET validPhotos == ValidPhotos(arenaPhotos)
       IN  \E idxB \in 1..Len(validPhotos) :
              IF validPhotos[idxB].id = candidate[1].id
              THEN UNCHANGED <<pc, attempts, candidate, ctx, currentPair,
                               battleContext, lastPairRef, effectDue, outcome>>
              ELSE Consider(candidate[1], validPhotos[idxB], "EXPLORATION MODE",
                            attempts)
    /\ AppUnchanged

-----------------------------------------------------------------------------
(* Specification of the sampler alone: the arena mounted on a snapshot      *)
(* calculateRankings has returned, with any last pair remembered.           *)

MaxPairStreak == 4   \* longest run of "A beats B" behind a sampler snapshot

PairLogs ==
    {Streak(n) \o t : n \in 0..MaxPairStreak,
                      t \in SeqsUpTo({m \in MatchResults : m.timestamp = 1}, 1)}

LastPairs(photos) == {{}} \cup {S \in SUBSET Range(photos) : Cardinality(S) = 2}

PairInit ==
    /\ pc = "idle"
    /\ appState = "BATTLE"
    /\ rawPhotos \in PhotoLists
    /\ matchHistory \in PairLogs
    /\ rankedPhotos = calculateRankings(rawPhotos, matchHistory)
    /\ currentPair = NoPair
    /\ battleContext = Null
    /\ lastPairRef \in LastPairs(rawPhotos)
    /\ isTransitioning = FALSE
    /\ timerPending = FALSE
    /\ effectDue = TRUE
    /\ attempts = 0
    /\ candidate = <<>>
    /\ ctx = Null
    /\ outcome = "none"
    /\ trail = NoTrail
    /\ StoreIdle

PairNext == PairEffect \/ SelectAttempt \/ ExploreRedraw

PairSpec == PairInit /\ [][PairNext]_vars

-----------------------------------------------------------------------------
(* Properties of the sampler (checked under PairSpec) *)

SnapshotIds == {rankedPhotos[i].id : i \in 1..Len(rankedPhotos)}

\* C6: whichever policy is taken, the two sides of every candidate pair and of
\* the pair chosen in the end are different items of the snapshot.
C6_NoSelfMatch ==
    /\ Len(candidate) = 2 =>
           /\ candidate[1].id # candidate[2].id
           /\ {candidate[1].id, candidate[2].id} \subseteq SnapshotIds
    /\ currentPair # NoPair =>
           /\ currentPair[1].id # currentPair[2].id
           /\ {currentPair[1].id, currentPair[2].id} \subseteq SnapshotIds
           /\ lastPairRef = {currentPair[1].id, currentPair[2].id}

\* a pair chosen by the placement policy when no item has a match, where the
\* opponent comes from the pool of all items but the first side
C6_Witness ==
    /\ currentPair # NoPair
    /\ battleContext = "CLASSIFYING NEW ASSET"
    /\ Len(rankedPhotos) = Len(AllPhotos)
    /\ \A i \in 1..Len(rankedPhotos) : rankedPhotos[i].matches = 0

\* the call of selectNextPair has been made and has ended
Called == pc = "idle" /\ ~effectDue

\* C9, as the claim states it: on fewer than two items the call fails with an
\* InsufficientItems error.
C9_InsufficientItemsError ==
    (Called /\ Len(rankedPhotos) < 2) => outcome = "InsufficientItems"

\* C9, amended: on fewer than two items selectNextPair returns without
\* choosing a pair and without an error; it never enters its loop and leaves
\* pair, context and last-pair memory as they were.
C9_SilentReturn ==
    Len(rankedPhotos) < 2 =>
        /\ pc = "idle"
        /\ Called => outcome = "returned"
        /\ currentPair = NoPair
        /\ battleContext = Null
        /\ lastPairRef = {}

\* the call made on a snapshot of one item, and returned from
C9_Witness ==
    /\ Called
    /\ Len(rankedPhotos) = 1
    /\ outcome = "returned"

-----------------------------------------------------------------------------
(* App: session start, vote, undo, navigation *)

MaxStored == 1     \* length of the history a session start finds stored
MaxHistory == 2    \* votes are taken while the log is shorter than this

\* what storageService.loadSession may return
\* the events of stored logs: one between two items, one naming an id that
\* no loaded photo has
StoredResults ==
    {[winnerId |-> "A", loserId |-> "B", timestamp |-> 1],
     [winnerId |-> "B", loserId |-> StaleId, timestamp |-> MaxTime]}

StoredLogs == SeqsUpTo(StoredResults, MaxStored)

\* faulty variant: the snapshot is kept while the log is empty
RankingEffectOnEventsOnly(photos, matches, ranked) ==
    IF Len(photos) > 0 /\ Len(matches) > 0
    THEN calculateRankings(photos, matches) ELSE ranked

\* the ranking effect: if (rawPhotos.length > 0) setRankedPhotos(...)
RankingEffect(photos, matches, ranked) ==
    IF Len(photos) > 0 THEN calculateRankings(photos, matches) ELSE ranked

\* faulty variant: the new event is put in front of the log
handleVotePrepending(history, winnerId, loserId, now) ==
    <<[winnerId |-> winnerId, loserId |-> loserId, timestamp |-> now]>> \o history

\* setMatchHistory(prev => [...prev, newMatch]), the timestamp being Date.now()
handleVote(history, winnerId, loserId, now) ==
    Append(history, [winnerId |-> winnerId, loserId |-> loserId, timestamp |-> now])

\* faulty variant: the first event is dropped instead of the last
handleUndoDroppingFirst(history) ==
    IF Len(history) > 0 THEN Tail(history) ELSE history

\* if (matchHistory.length > 0) setMatchHistory(prev => prev.slice(0, -1))
handleUndo(history) ==
    IF Len(history) > 0 THEN SubSeq(history, 1, Len(history) - 1) ELSE history

\* the sessions handleStart is called with: the global stream and one album
StartIds == {Undefined, "album"}

\* the log kept for the album
AlbumLog == <<[winnerId |-> "C", loserId |-> "A", timestamp |-> 1]>>

\* what localStorage may hold when the app is opened: nothing, or a stored
\* log for the global stream and the album's log
InitialStorages ==
    {EmptyStorage}
    \cup {[EmptyStorage EXCEPT ![getKey(Undefined)] = <<s>>,
                               ![getKey("album")] = <<AlbumLog>>] : s \in StoredLogs}

\* faulty variant: the log is always written to the global stream's key
PersistenceEffectOnGlobalKey(store, state, sessionId, history) ==
    IF state # "SETUP" THEN saveSession(store, Undefined, history) ELSE store

\* the persistence effect:
\* if (appState !== AppState.SETUP) storageService.saveSession(activeSessionId, matchHistory)
PersistenceEffect(store, state, sessionId, history) ==
    IF state # "SETUP" THEN saveSession(store, sessionId, history) ELSE store

\* the arguments of the call the persistence effect makes, if it makes one
SaveCall(last, state, sessionId, history) ==
    IF state # "SETUP" THEN <<[albumId |-> sessionId, history |-> history]>> ELSE last

\* the persistence effect after a render that changed one of its dependencies
Persist ==
    /\ storage' = PersistenceEffect(storage, appState', activeSessionId', matchHistory')
    /\ lastSave' = SaveCall(lastSave, appState', activeSessionId', matchHistory')
    /\ UNCHANGED <<backup, importResult>>

\* what the App's handlers leave alone in a mounted arena
SamplerUnchanged == UNCHANGED <<pc, attempts, candidate, ctx, outcome>>

\* the arena's state and ref as a mount sets them up, or with no arena mounted
ArenaReset ==
    /\ currentPair' = NoPair
    /\ battleContext' = Null
    /\ lastPairRef' = {}
    /\ isTransitioning' = FALSE
    /\ timerPending' = FALSE
    /\ attempts' = 0
    /\ candidate' = <<>>
    /\ ctx' = Null
    /\ outcome' = "none"

Init ==
    /\ pc = "idle"
    /\ appState = "SETUP"
    /\ rawPhotos = <<>>
    /\ matchHistory = <<>>
    /\ rankedPhotos = <<>>
    /\ effectDue = FALSE
    /\ trail = NoTrail
    /\ ArenaIdle
    /\ activeSessionId = Undefined
    /\ storage \in InitialStorages
    /\ lastSave = <<>>
    /\ backup = <<>>
    /\ importResult = <<>>

(* handleStart, with what the fetch returns.  The stored history replaces   *)
(* the log before the fetch; fewer than two photos leave the app in SETUP.  *)
(* Otherwise the arena is mounted and the ranking effect runs.              *)
HandleStart ==
    /\ pc = "idle"
    /\ appState = "SETUP"
    /\ \E albumId \in StartIds, fetchedPhotos \in PhotoLists :
      LET sessionHistory == loadSession(storage, albumId)
      IN
        /\ activeSessionId' = albumId
        /\ matchHistory' = sessionHistory
        /\ IF Len(fetchedPhotos) < 2
           THEN UNCHANGED <<appState, rawPhotos, rankedPhotos, effectDue>>
           ELSE /\ rawPhotos' = fetchedPhotos
                /\ appState' = "BATTLE"
                /\ rankedPhotos' = RankingEffect(fetchedPhotos, sessionHistory,
                                                 rankedPhotos)
                /\ effectDue' = TRUE
    /\ Persist
    /\ UNCHANGED <<pc, currentPair, battleContext, lastPairRef, isTransitioning,
                   timerPending, attempts, candidate, ctx, outcome, trail>>

\* faulty variant: a choice is taken during the transition as well
ChoiceAcceptedInTransition(pair, transitioning) == pair # NoPair

(* A click or an arrow key reaches onVote: the sides are rendered, and the  *)
(* arrow keys listened to, only with a pair (!currentPair returns), and     *)
(* handleChoice and handleKeyDown return if (isTransitioning)               *)
ChoiceAccepted(pair, transitioning) == pair # NoPair /\ ~transitioning

(* handleChoice on a click or an arrow key: ignored while transitioning;    *)
(* else the vote is appended, the snapshot recomputed and the timer set.    *)
HandleChoice ==
    /\ pc = "idle"
    /\ appState = "BATTLE"
    /\ ~effectDue
    /\ ChoiceAccepted(currentPair, isTransitioning)
    /\ Len(matchHistory) < MaxHistory
    /\ \E side \in {1, 2}, now \in 1..MaxTime :
        /\ matchHistory' = handleVote(matchHistory, currentPair[side].id,
                                      currentPair[3 - side].id, now)
        /\ rankedPhotos' = RankingEffect(rawPhotos, matchHistory', rankedPhotos)
    /\ isTransitioning' = TRUE
    /\ timerPending' = TRUE
    /\ trail' = [phase |-> "voted", log |-> matchHistory, ranked |-> rankedPhotos]
    /\ UNCHANGED <<appState, rawPhotos, currentPair, battleContext, lastPairRef,
                   effectDue, activeSessionId>>
    /\ Persist
    /\ SamplerUnchanged

\* faulty variant: the callback withdraws the pair and leaves the transition on
TransitionTimerLeavingTransition ==
    /\ pc = "idle"
    /\ ~effectDue
    /\ timerPending
    /\ timerPending' = FALSE
    /\ currentPair' = NoPair
    /\ effectDue' = TRUE
    /\ UNCHANGED <<appState, rawPhotos, matchHistory, rankedPhotos, battleContext,
                   lastPairRef, trail, isTransitioning>>
    /\ StoreUnchanged
    /\ SamplerUnchanged

\* the callback of setTimeout(..., 400)
TransitionTimer ==
    /\ pc = "idle"
    /\ ~effectDue
    /\ timerPending
    /\ timerPending' = FALSE
    /\ currentPair' = NoPair
    /\ isTransitioning' = FALSE
    /\ effectDue' = TRUE
    /\ UNCHANGED <<appState, rawPhotos, matchHistory, rankedPhotos, battleContext,
                   lastPairRef, trail>>
    /\ StoreUnchanged
    /\ SamplerUnchanged

(* Ctrl/Cmd+Z in the arena: handleUndo, then the ranking effect.  The pair  *)
(* effect runs again on the new snapshot and has work with no pair shown.   *)
HandleUndo ==
    /\ pc = "idle"
    /\ appState = "BATTLE"
    /\ ~effectDue
    /\ matchHistory' = handleUndo(matchHistory)
    /\ rankedPhotos' = RankingEffect(rawPhotos, matchHistory', rankedPhotos)
    /\ effectDue' = (currentPair = NoPair)
    /\ trail' = IF trail.phase = "voted" /\ Len(matchHistory) > 0
                THEN [trail EXCEPT !.phase = "undone"]
                ELSE NoTrail
    /\ UNCHANGED <<appState, rawPhotos, currentPair, battleContext, lastPairRef,
                   isTransitioning, timerPending, activeSessionId>>
    /\ Persist
    /\ SamplerUnchanged

(* Layout's navigation between arena and leaderboard: the arena is          *)
(* unmounted, or mounted anew; a timer left running finds no arena.         *)
ChangeState ==
    /\ pc = "idle"
    /\ appState # "SETUP"
    /\ ~effectDue
    /\ \E target \in {"BATTLE", "LEADERBOARD"} :
        /\ target # appState
        /\ appState' = target
        /\ effectDue' = (target = "BATTLE")
    /\ ArenaReset
    /\ UNCHANGED <<pc, rawPhotos, matchHistory, rankedPhotos, trail, activeSessionId>>
    /\ Persist

Next ==
    \/ HandleStart
    \/ HandleChoice
    \/ TransitionTimer
    \/ HandleUndo
    \/ ChangeState
    \/ PairEffect
    \/ SelectAttempt
    \/ ExploreRedraw

Spec == Init /\ [][Next]_vars

-----------------------------------------------------------------------------
(* Properties of the App (checked under Spec) *)

\* C3: a vote followed by an undo leaves the log as the vote found it, and the
\* snapshot recomputed after the undo is, field for field, the snapshot that
\* had been computed for that log.
C3_UndoRoundTrip ==
    trail.phase = "undone" =>
        /\ matchHistory = trail.log
        /\ rankedPhotos = trail.ranked
        /\ rankedPhotos = calculateRankings(rawPhotos, trail.log)

\* an undo made during the transition of a vote that was cast on a log
\* holding an applied event, the vote having moved the snapshot
C3_Witness ==
    /\ trail.phase = "undone"
    /\ isTransitioning
    /\ Len(matchHistory) >= 1
    /\ \E i \in 1..Len(rankedPhotos) : rankedPhotos[i].matches > 0

-----------------------------------------------------------------------------
(* Scenario of C11 (checked under ReplaySpec) *)

\* the replay of [(A beats B, t=1), (B beats A, t=2)] over A, B and C
RematchReplayed ==
    /\ Replayed
    /\ rawPhotos = AllPhotos
    /\ matchHistory = <<[winnerId |-> "A", loserId |-> "B", timestamp |-> 1],
                        [winnerId |-> "B", loserId |-> "A", timestamp |-> 2]>>

\* the maps before the first event, after the first and after the second
RematchSteps == ReplaySteps(InitialMap(rawPhotos), SortMatches(matchHistory))

\* C11, as the claim states it: the second event is an upset and leaves A's
\* and B's uncertainty above their values after the first event.
C11_RematchIsUpset ==
    RematchReplayed =>
        /\ isUpset(getExpectedScore(RematchSteps[2]["B"].rating,
                                    RematchSteps[2]["A"].rating))
        /\ Entry("A").uncertainty > RematchSteps[2]["A"].uncertainty
        /\ Entry("B").uncertainty > RematchSteps[2]["B"].uncertainty

\* C11, amended: after "A beats B" from the prior, B's expected score against
\* A is about 0.40, not below 0.25; the second event is no upset and both
\* uncertainties decay once more, 350 -> 322 -> 296.24.
C11_RematchIsNoUpset ==
    RematchReplayed =>
        /\ ~isUpset(getExpectedScore(RematchSteps[2]["B"].rating,
                                     RematchSteps[2]["A"].rating))
        /\ RematchSteps[2]["A"].uncertainty = 322 * Unit
        /\ RematchSteps[2]["B"].uncertainty = 322 * Unit
        /\ Entry("A").uncertainty = 296240
        /\ Entry("B").uncertainty = 296240
        /\ Entry("C").uncertainty = INITIAL_UNCERTAINTY * Unit

\* the scenario replayed, B having won the second event from 35 points below
C11_Witness ==
    /\ RematchReplayed
    /\ RematchSteps[2]["A"].rating = 1035 * Unit
    /\ RematchSteps[2]["B"].rating = 965 * Unit
    /\ Entry("B").wins = 1
    /\ Entry("A").wins = 1

-----------------------------------------------------------------------------
(* Repeat avoidance (checked under PairSpec) *)

PairIds(pair) == {pair[1].id, pair[2].id}

\* a step of the retry loop that drew a candidate and did not take it
Rejects == pc # "idle" /\ pc' = "select" /\ Len(candidate') = 2

\* a step of selectNextPair that ends the call with a pair
Presents == pc # "idle" /\ pc' = "idle" /\ currentPair' # NoPair

\* C12: a call draws at most MAX_ATTEMPTS candidates, one per attempt; a
\* candidate is passed over only if it is the remembered last pair; and the
\* call returns that pair only on its last attempt, every attempt before
\* having drawn and passed over that same pair.
C12_BoundedRepeatAvoidance ==
    [][/\ attempts' <= MAX_ATTEMPTS
       /\ attempts' \in {0, attempts, attempts + 1}
       /\ Rejects => /\ lastPairRef' = lastPairRef
                     /\ PairIds(candidate') = lastPairRef
                     /\ attempts' < MAX_ATTEMPTS
       /\ Presents => /\ attempts' >= 1
                      /\ PairIds(currentPair') = lastPairRef
                             => attempts' = MAX_ATTEMPTS
       /\ (pc = "select" /\ attempts >= 1 /\ Len(candidate) = 2)
              => PairIds(candidate) = lastPairRef]_vars

\* a call on three items that came to its last attempt, four candidates
\* having been the remembered pair
C12_Witness ==
    /\ pc = "idle"
    /\ outcome = "pair"
    /\ Len(rankedPhotos) = Len(AllPhotos)
    /\ attempts = MAX_ATTEMPTS

-----------------------------------------------------------------------------
(* Per-event updates (checked under ReplaySpec) *)

SortedLog == SortMatches(matchHistory)
LogSteps == ReplaySteps(InitialMap(rawPhotos), SortedLog)

\* the event is applied, to two different items
AppliedBetweenTwo(match) == ~UnknownParticipant(match) /\ ~SelfMatch(match)

\* const isUpset = Ew < 0.25, on the ratings the event finds
UpsetOn(before, match) ==
    isUpset(getExpectedScore(before[match.winnerId].rating,
                             before[match.loserId].rating))

\* C13: every applied event between two different known items adds exactly
\* one match and one win to its winner and one match and one loss to its
\* loser, and leaves the winner's losses and the loser's wins as they were,
\* upset or not.
C13_CountersPerEvent ==
    Replayed =>
        LET sorted == SortedLog
            steps == LogSteps
        IN  \A k \in 1..Len(sorted) :
                AppliedBetweenTwo(sorted[k]) =>
                    LET before == steps[k]
                        after == steps[k + 1]
                        w == sorted[k].winnerId
                        l == sorted[k].loserId
                    IN  /\ after[w].matches = before[w].matches + 1
                        /\ after[w].wins = before[w].wins + 1
                        /\ after[w].losses = before[w].losses
                        /\ after[l].matches = before[l].matches + 1
                        /\ after[l].losses = before[l].losses + 1
                        /\ after[l].wins = before[l].wins

\* a replay with an upset and an expected result, both between two
\* different known items
C13_Witness ==
    /\ Replayed
    /\ LET sorted == SortedLog
           steps == LogSteps
       IN  \E k, j \in 1..Len(sorted) :
               /\ AppliedBetweenTwo(sorted[k]) /\ UpsetOn(steps[k], sorted[k])
               /\ AppliedBetweenTwo(sorted[j]) /\ ~UpsetOn(steps[j], sorted[j])
               /\ Entry(sorted[k].winnerId).wins >= 1
               /\ Entry(sorted[k].loserId).losses >= 1

\* the uncertainty the rule gives for an old value, in thousandths
RuleValue(upset, old) ==
    IF upset THEN Min(INITIAL_UNCERTAINTY * Unit, old + 50 * Unit)
    ELSE Max(MIN_UNCERTAINTY * Unit, (old * 92) \div 100)

\* C14: an applied event is classified on the ratings it finds; on an upset
\* the winner's and the loser's uncertainty become min(350, old + 50) and do
\* not decrease, otherwise they become max(40, old * 0.92), do not increase
\* and stay above zero.  (An event naming one item twice applies the rule to
\* that item once as winner and once as loser.)
C14_UncertaintyRule ==
    Replayed =>
        LET sorted == SortedLog
            steps == LogSteps
        IN  \A k \in 1..Len(sorted) :
                ~UnknownParticipant(sorted[k]) =>
                    LET before == steps[k]
                        after == steps[k + 1]
                        w == sorted[k].winnerId
                        l == sorted[k].loserId
                        upset == UpsetOn(before, sorted[k])
                    IN  /\ w # l =>
                            /\ after[w].uncertainty
                                   = RuleValue(upset, before[w].uncertainty)
                            /\ after[l].uncertainty
                                   = RuleValue(upset, before[l].uncertainty)
                        /\ w = l =>
                            after[w].uncertainty
                                = RuleValue(upset, RuleValue(upset, before[w].uncertainty))
                        /\ \A id \in {w, l} :
                            /\ upset => after[id].uncertainty >= before[id].uncertainty
                            /\ ~upset => /\ after[id].uncertainty <= before[id].uncertainty
                                         /\ after[id].uncertainty > 0

\* a replay with an upset that the ratings it leaves would no longer class as
\* one, raising both uncertainties, and an expected result lowering both
C14_Witness ==
    /\ Replayed
    /\ LET sorted == SortedLog
           steps == LogSteps
       IN  \E k, j \in 1..Len(sorted) :
               /\ AppliedBetweenTwo(sorted[k]) /\ UpsetOn(steps[k], sorted[k])
               /\ ~UpsetOn(steps[k + 1], sorted[k])
               /\ \A id \in {sorted[k].winnerId, sorted[k].loserId} :
                      steps[k + 1][id].uncertainty > steps[k][id].uncertainty
               /\ AppliedBetweenTwo(sorted[j]) /\ ~UpsetOn(steps[j], sorted[j])
               /\ \A id \in {sorted[j].winnerId, sorted[j].loserId} :
                      steps[j + 1][id].uncertainty < steps[j][id].uncertainty

-----------------------------------------------------------------------------
(* Specification of the core: one call of calculateRankings, then one call *)
(* of selectNextPair on the snapshot it returned.                          *)

\* the logs behind the sampler's snapshots, and pairs of events in any order
\* of time
CoreLogs == PairLogs \cup {<<a, b>> : a \in TwoPartyResults, b \in TwoPartyResults}

CoreInit ==
    /\ pc = "replay"
    /\ appState = "BATTLE"
    /\ rawPhotos \in PhotoLists
    /\ matchHistory \in CoreLogs
    /\ rankedPhotos = <<>>
    /\ currentPair = NoPair
    /\ battleContext = Null
    /\ lastPairRef \in LastPairs(rawPhotos)
    /\ isTransitioning = FALSE
    /\ timerPending = FALSE
    /\ effectDue = TRUE
    /\ attempts = 0
    /\ candidate = <<>>
    /\ ctx = Null
    /\ outcome = "none"
    /\ trail = NoTrail
    /\ StoreIdle

CoreNext == Replay \/ PairEffect \/ SelectAttempt \/ ExploreRedraw

CoreSpec == CoreInit /\ [][CoreNext]_vars

\* C15: neither call writes its inputs.  calculateRankings leaves the item
\* list and the event list (contents and order) as they were and writes no
\* arena state; selectNextPair leaves the items, the log and the snapshot
\* (contents and order) as they were, and of the state outside its own call
\* writes only the current pair, its rationale and the last-pair memory.
C15_InputsUnchanged ==
    [][/\ rawPhotos' = rawPhotos
       /\ matchHistory' = matchHistory
       /\ UNCHANGED <<appState, isTransitioning, timerPending, trail>>
       /\ pc = "replay" => UNCHANGED <<currentPair, battleContext, lastPairRef>>
       /\ pc # "replay" => rankedPhotos' = rankedPhotos]_vars

\* both calls made: a snapshot that is in neither list's order, replayed
\* from a log that is not in order of time and is still the log, and a pair
\* chosen from it
C15_Witness ==
    /\ pc = "idle"
    /\ outcome = "pair"
    /\ currentPair # NoPair
    /\ SortMatches(matchHistory) # matchHistory
    /\ Len(rankedPhotos) = Len(rawPhotos)
    /\ rankedPhotos[1].id # rawPhotos[1]
    /\ rankedPhotos = calculateRankings(rawPhotos, matchHistory)

-----------------------------------------------------------------------------
(* Placement (checked under PairSpec) *)

\* the candidate pair on hand was drawn by the placement policy
PlacementTaken == Len(candidate) = 2 /\ ctx = "CLASSIFYING NEW ASSET"

IsAnchor(p) == p.matches >= 3 /\ Abs(p.rating - 1000 * Unit) < 150 * Unit

\* the items side B of a placement of a may come from
PlacementTier(a) ==
    LET all == Range(rankedPhotos)
        anchors == {p \in all : IsAnchor(p)}
        matched == {p \in all : p.id # a.id /\ p.matches > 0}
        others == {p \in all : p.id # a.id}
    IN  IF anchors # {} THEN anchors
        ELSE IF matched # {} THEN matched
        ELSE others

\* C16: a placement has an item without matches as side A and as side B an
\* item other than A: an anchor if the snapshot has one, else another item
\* with matches if there is one, else any other item; and in every snapshot
\* the loop runs on, every item without matches has a side B to be drawn.
C16_PlacementDegrades ==
    /\ PlacementTaken =>
           /\ candidate[1].matches = 0
           /\ candidate[2] \in Range(rankedPhotos)
           /\ candidate[2].id # candidate[1].id
           /\ candidate[2] \in PlacementTier(candidate[1])
    /\ pc = "select" =>
           /\ Len(rankedPhotos) >= 2
           /\ \A p \in Range(rankedPhotos) :
                  p.matches = 0 =>
                      /\ PlacementTier(p) # {}
                      /\ Len(FinalPool(ValidPhotos(rankedPhotos), p)) > 0

\* a placement against the one anchor of a snapshot that also holds another
\* item with matches
C16_Witness ==
    /\ PlacementTaken
    /\ pc = "idle"
    /\ IsAnchor(candidate[2])
    /\ \E p \in Range(rankedPhotos) :
           /\ p.id \notin {candidate[1].id, candidate[2].id}
           /\ p.matches > 0
           /\ ~IsAnchor(p)

-----------------------------------------------------------------------------
(* Order of vote, replay and pair selection (checked under Spec) *)

\* the log is the log a vote found, with that vote at its end
VoteInLog ==
    /\ Len(matchHistory) = Len(trail.log) + 1
    /\ SubSeq(matchHistory, 1, Len(trail.log)) = trail.log

\* C17: whenever selectNextPair runs or has just set a pair, the snapshot is
\* the replay of the log as it is now and every candidate is an entry of that
\* snapshot; and if a vote has been cast and not undone, that log has the
\* vote at its end and the snapshot is not the one the vote was cast on.
C17_SelectionAfterReplay ==
    [][(pc' # "idle" \/ Presents) =>
          /\ rankedPhotos' = calculateRankings(rawPhotos', matchHistory')
          /\ \A i \in 1..Len(candidate') : candidate'[i] \in Range(rankedPhotos')
          /\ Presents => /\ currentPair'[1] \in Range(rankedPhotos')
                         /\ currentPair'[2] \in Range(rankedPhotos')
          /\ trail'.phase = "voted" => /\ VoteInLog'
                                       /\ rankedPhotos' # trail'.ranked]_vars

\* the pair set after a vote and its timer: its two items carry the counts
\* and ratings the vote has left
C17_Witness ==
    /\ pc = "idle"
    /\ appState = "BATTLE"
    /\ trail.phase = "voted"
    /\ VoteInLog
    /\ ~isTransitioning
    /\ outcome = "pair"
    /\ currentPair # NoPair
    /\ currentPair[1] \in Range(rankedPhotos)
    /\ currentPair[2] \in Range(rankedPhotos)
    /\ currentPair[1].matches + currentPair[2].matches > 0

-----------------------------------------------------------------------------
(* The snapshot as a function of the log (checked under Spec) *)

ItemsLoaded == Len(rawPhotos) > 0

\* C18: once the items are loaded, the snapshot the app holds is the replay
\* of the items over the log as it stands, after a session load, a vote or an
\* undo alike.
C18_SnapshotIsReplayOfLog ==
    ItemsLoaded => rankedPhotos = calculateRankings(rawPhotos, matchHistory)

\* a stored log loaded, a vote cast on top of it and undone: the snapshot
\* shows the stored event and nothing of the vote
C18_Witness ==
    /\ ItemsLoaded
    /\ trail.phase = "undone"
    /\ Len(trail.log) >= 1
    /\ matchHistory = trail.log
    /\ rankedPhotos # calculateRankings(rawPhotos, <<>>)
    /\ rankedPhotos = trail.ranked

-----------------------------------------------------------------------------
(* Determinism of the replay (checked under CoreSpec) *)

-----------------------------------------------------------------------------
(* Order of the fold (checked under ReplaySpec) *)

\* the place of the i-th event of the list among the events in order of
\* time, events of one timestamp in list order
StableRank(matches, i) ==
    1 + Cardinality({j \in 1..Len(matches) :
                        \/ matches[j].timestamp < matches[i].timestamp
                        \/ /\ matches[j].timestamp = matches[i].timestamp
                           /\ j < i})

\* C20: the events are folded in order of time, events of one timestamp in
\* the order of the input list; each applied event moves its winner and its
\* loser from the ratings and uncertainties the events folded before it have
\* left, and the snapshot holds what the last of them leaves.
C20_TiesInListOrder ==
    Replayed =>
        LET sorted == SortedLog
            steps == LogSteps
        IN  /\ Len(sorted) = Len(matchHistory)
            /\ \A i \in 1..Len(matchHistory) :
                   sorted[StableRank(matchHistory, i)] = matchHistory[i]
            /\ \A k \in 1..Len(sorted) :
                   AppliedBetweenTwo(sorted[k]) =>
                       LET before == steps[k]
                           after == steps[k + 1]
                           w == sorted[k].winnerId
                           l == sorted[k].loserId
                           Ew == getExpectedScore(before[w].rating, before[l].rating)
                       IN  /\ after[w].rating = before[w].rating
                                  + (KFactor(before[w].uncertainty) * (EScale - Ew))
                                        \div EScale
                           /\ after[l].rating = before[l].rating
                                  - (KFactor(before[l].uncertainty) * (EScale - Ew))
                                        \div EScale
                           /\ after[w].uncertainty
                                  = RuleValue(isUpset(Ew), before[w].uncertainty)
                           /\ after[l].uncertainty
                                  = RuleValue(isUpset(Ew), before[l].uncertainty)
            /\ \A id \in Range(rawPhotos) : Entry(id) = steps[Len(steps)][id]

\* a replay of two different events of one timestamp followed in the list by
\* an earlier event, where the two in the other order would have given
\* another snapshot
C20_Witness ==
    /\ Replayed
    /\ rawPhotos = AllPhotos
    /\ Len(matchHistory) = 3
    /\ matchHistory[1].timestamp = matchHistory[2].timestamp
    /\ matchHistory[3].timestamp < matchHistory[1].timestamp
    /\ SortedLog = <<matchHistory[3], matchHistory[1], matchHistory[2]>>
    /\ calculateRankings(rawPhotos,
                         <<matchHistory[2], matchHistory[1], matchHistory[3]>>)
           # rankedPhotos

-----------------------------------------------------------------------------
(* Changes of the log within a session (checked under Spec) *)

\* the step adds one event at the end of the log
AppendsOne ==
    /\ Len(matchHistory') = Len(matchHistory) + 1
    /\ SubSeq(matchHistory', 1, Len(matchHistory)) = matchHistory

\* the step takes the last event off the log
DropsLast ==
    /\ Len(matchHistory) > 0
    /\ matchHistory' = SubSeq(matchHistory, 1, Len(matchHistory) - 1)

-----------------------------------------------------------------------------
(* Specification of the sampler on wide snapshots: more items than the     *)
(* refinement policy takes candidates from.                                *)

WidePhotos == <<"P1", "P2", "P3", "P4", "P5", "P6", "P7", "P8", "P9", "P10", "P11">>

Beats(w, l, t) == [winnerId |-> w, loserId |-> l, timestamp |-> t]

\* every item compared once, the first of them twice
WideRound ==
    <<Beats("P1", "P2", 1), Beats("P3", "P4", 2), Beats("P5", "P6", 3),
      Beats("P7", "P8", 4), Beats("P9", "P10", 5), Beats("P11", "P1", 6)>>

MaxWide == 12   \* events in the long logs of two items

\* the first item beats the second, n times over
WideRun(n) == [i \in 1..n |-> Beats("P1", "P2", i)]

\* the first two items win in turn, n events in all
WideSeesaw(n) ==
    [i \in 1..n |-> IF i % 2 = 1 THEN Beats("P1", "P2", i) ELSE Beats("P2", "P1", i)]

WideLogs ==
    {SubSeq(WideRound, 1, n) : n \in 0..Len(WideRound)}
    \cup {WideRound \o <<Beats("P3", "P2", 7)>>,
          <<Beats("P1", "P2", 1), Beats("P3", "P2", 2)>>}
    \cup {WideRun(n) : n \in 1..MaxWide}
    \cup {WideSeesaw(n) : n \in 1..MaxWide}

WideInit ==
    /\ pc = "idle"
    /\ appState = "BATTLE"
    /\ rawPhotos \in {WidePhotos, SubSeq(WidePhotos, 1, 3), SubSeq(WidePhotos, 1, 2)}
    /\ matchHistory \in WideLogs
    /\ rankedPhotos = calculateRankings(rawPhotos, matchHistory)
    /\ currentPair = NoPair
    /\ battleContext = Null
    /\ lastPairRef = {}
    /\ isTransitioning = FALSE
    /\ timerPending = FALSE
    /\ effectDue = TRUE
    /\ attempts = 0
    /\ candidate = <<>>
    /\ ctx = Null
    /\ outcome = "none"
    /\ trail = NoTrail
    /\ StoreIdle

WideNext == PairEffect \/ SelectAttempt \/ ExploreRedraw

WideSpec == WideInit /\ [][WideNext]_vars

-----------------------------------------------------------------------------
(* Refinement (checked under WideSpec) *)

RefinementLabels == {"VERIFYING VOLATILITY", "QUALITY TIE-BREAKER", "REFINEMENT"}

\* the candidate pair on hand was drawn by the refinement policy
RefinementTaken == Len(candidate) = 2 /\ ctx \in RefinementLabels

PlaceOf(p) == CHOOSE i \in 1..Len(rankedPhotos) : rankedPhotos[i] = p

\* the items that come before p by uncertainty, highest first, items of one
\* uncertainty in snapshot order
MoreUncertain(p) ==
    {q \in Range(rankedPhotos) :
        \/ q.uncertainty > p.uncertainty
        \/ q.uncertainty = p.uncertainty /\ PlaceOf(q) < PlaceOf(p)}

RatingGap(p, q) == Abs(p.rating - q.rating)

\* C22: a refinement has as side A one of the min(10, n) items of highest
\* uncertainty, and as side B the first item in snapshot order, A aside,
\* whose rating is as close to A's as any other item's.
C22_RefinementSelection ==
    RefinementTaken =>
        LET a == candidate[1]
            b == candidate[2]
            others == {p \in Range(rankedPhotos) : p.id # a.id}
        IN  /\ a \in Range(rankedPhotos)
            /\ Cardinality(MoreUncertain(a)) < Min(10, Len(rankedPhotos))
            /\ Cardinality({q \in Range(rankedPhotos) : q.uncertainty > a.uncertainty})
                   < Min(10, Len(rankedPhotos))
            /\ b \in others
            /\ \A p \in others : RatingGap(b, a) <= RatingGap(p, a)
            /\ \A p \in others :
                   RatingGap(p, a) = RatingGap(b, a) => PlaceOf(b) <= PlaceOf(p)

\* a refinement on eleven items: one item is too certain to be side A, and
\* side B is the first of several items equally close to A
C22_Witness ==
    /\ RefinementTaken
    /\ Len(rankedPhotos) = Len(WidePhotos)
    /\ \E q \in Range(rankedPhotos) :
           Cardinality(MoreUncertain(q)) >= 10
    /\ \E p \in Range(rankedPhotos) :
           /\ p.id \notin {candidate[1].id, candidate[2].id}
           /\ RatingGap(p, candidate[1]) = RatingGap(candidate[2], candidate[1])
           /\ PlaceOf(p) > PlaceOf(candidate[2])

\* either side of the candidate pair has an uncertainty above 150
Volatile == candidate[1].uncertainty > 150 * Unit \/ candidate[2].uncertainty > 150 * Unit

\* the ratings of the candidate pair are less than 20 apart
CloseRatings == RatingGap(candidate[1], candidate[2]) < 20 * Unit

\* C23: a refinement pair is labelled VERIFYING VOLATILITY exactly when
\* either uncertainty is above 150, whatever the rating gap; QUALITY
\* TIE-BREAKER exactly when neither is and the gap is below 20; REFINEMENT
\* exactly when neither is and the gap is 20 or more.
C23_LabelPrecedence ==
    RefinementTaken =>
        /\ ctx = "VERIFYING VOLATILITY" <=> Volatile
        /\ ctx = "QUALITY TIE-BREAKER" <=> (~Volatile /\ CloseRatings)
        /\ ctx = "REFINEMENT" <=> (~Volatile /\ ~CloseRatings)
        /\ Cardinality({label \in RefinementLabels : ctx = label}) = 1

\* a volatile pair whose ratings are less than 20 apart
C23_Witness ==
    /\ RefinementTaken
    /\ Volatile
    /\ CloseRatings
    /\ ctx = "VERIFYING VOLATILITY"
    /\ battleContext = ctx

-----------------------------------------------------------------------------
(* Persistence of the session (checked under Spec) *)

\* C24: saveSession is not called in SETUP; every call has the active
\* session's id and the log in memory as its arguments; a step changes no
\* stored item but the one under the active session's key, which it sets to
\* the log in memory; and in a session that item is the log in memory.
C24_SessionPersistence ==
    [][/\ appState' = "SETUP" => (lastSave' = <<>> /\ storage' = storage)
       /\ lastSave' # lastSave =>
              lastSave' = <<[albumId |-> activeSessionId', history |-> matchHistory']>>
       /\ \A key \in StorageKeys :
              storage'[key] # storage[key] =>
                  /\ appState' # "SETUP"
                  /\ key = getKey(activeSessionId')
                  /\ storage'[key] = <<matchHistory'>>
       /\ appState' # "SETUP" =>
              storage'[getKey(activeSessionId')] = <<matchHistory'>>]_vars

\* a vote cast in the album's session: the album's item holds the log with
\* the vote, the global stream's item the other log it held before
C24_Witness ==
    /\ appState = "BATTLE"
    /\ activeSessionId = "album"
    /\ trail.phase = "voted"
    /\ VoteInLog
    /\ lastSave = <<[albumId |-> "album", history |-> matchHistory]>>
    /\ storage[getKey("album")] = <<matchHistory>>
    /\ storage[getKey(Undefined)] # NoItem
    /\ storage[getKey(Undefined)] \notin {<<matchHistory>>, <<trail.log>>}


-----------------------------------------------------------------------------
(* storageService.exportData and importData: the backup of one session and  *)
(* its restoration.  Nothing in the application calls them; they are        *)
(* checked on their own, over stores whose three keys hold independent      *)
(* contents.                                                                *)

BACKUP_TYPE == "portfolio_ranker_backup"

\* what a key of the store may hold: nothing, or a saved history
StoredItems == {NoItem} \cup {<<s>> : s \in StoredLogs}

\* faulty variant: the backup always names the global stream
exportDataNamingGlobal(store, albumId) ==
    [version |-> 1,
     type    |-> BACKUP_TYPE,
     context |-> "global",
     data    |-> IF store[getKey(albumId)] # NoItem
                 THEN store[getKey(albumId)][1] ELSE <<>>]

(* exportData: context: albumId || 'global', data: data ? JSON.parse(data)  *)
(* : [].  The timestamp, Date.now(), is read by nobody and is left out.     *)
exportData(store, albumId) ==
    [version |-> 1,
     type    |-> BACKUP_TYPE,
     context |-> IF albumId \notin {Undefined, ""} THEN albumId ELSE "global",
     data    |-> IF store[getKey(albumId)] # NoItem
                 THEN store[getKey(albumId)][1] ELSE <<>>]

\* importData's context: parsed.context === 'global' ? undefined : parsed.context
importContext(parsed) ==
    IF parsed.context = "global" THEN Undefined ELSE parsed.context

(* importData, for a backup of the right type whose data is a list: the     *)
(* store after saveSession(context, history)                                *)
importData(store, parsed) ==
    saveSession(store, importContext(parsed), parsed.data)

StoreInit ==
    /\ pc = "idle"
    /\ appState = "SETUP"
    /\ rawPhotos = <<>>
    /\ matchHistory = <<>>
    /\ rankedPhotos = <<>>
    /\ effectDue = FALSE
    /\ trail = NoTrail
    /\ ArenaIdle
    /\ activeSessionId = Undefined
    /\ storage \in [StorageKeys -> StoredItems]
    /\ lastSave = <<>>
    /\ backup = <<>>
    /\ importResult = <<>>

StoreRest ==
    UNCHANGED <<appState, rawPhotos, matchHistory, rankedPhotos, currentPair,
                battleContext, lastPairRef, isTransitioning, timerPending,
                effectDue, attempts, candidate, ctx, outcome, trail,
                activeSessionId, lastSave>>

(* exportData(albumId): backup holds the exported object, and next to it    *)
(* the argument of the call                                                 *)
ExportData ==
    /\ pc = "idle"
    /\ \E albumId \in SessionIds :
           backup' = <<[albumId |-> albumId, object |-> exportData(storage, albumId)]>>
    /\ pc' = "exported"
    /\ UNCHANGED <<storage, importResult>>
    /\ StoreRest

\* importData(the exported string): the type is right and data is a list
ImportData ==
    /\ pc = "exported"
    /\ backup[1].object.type = BACKUP_TYPE
    /\ storage' = importData(storage, backup[1].object)
    /\ importResult' = <<importContext(backup[1].object)>>
    /\ pc' = "idle"
    /\ UNCHANGED backup
    /\ StoreRest

StoreNext == ExportData \/ ImportData

StoreSpec == StoreInit /\ [][StoreNext]_vars

(* C25: for every session context, importData(exportData(context)) stores   *)
(* exactly the exported history under the key of that context, returns      *)
(* that context, and leaves every other key's item unchanged.               *)
C25_RoundTrip ==
    [][pc = "exported" /\ pc' = "idle" =>
          LET albumId  == backup[1].albumId
              exported == backup[1].object.data
          IN  /\ importResult' = <<albumId>>
              /\ storage'[getKey(albumId)] = <<exported>>
              /\ exported = loadSession(storage, albumId)
              /\ \A key \in StorageKeys \ {getKey(albumId)} :
                     storage'[key] = storage[key]]_vars

(* the backup of the album whose id is "global" has been imported: the      *)
(* global stream's key holds the album's history, the call returned         *)
(* undefined, and the album's own key holds something else                  *)
C25_Witness ==
    /\ pc = "idle"
    /\ backup # <<>>
    /\ backup[1].albumId = "global"
    /\ backup[1].object.data # <<>>
    /\ importResult = <<Undefined>>
    /\ storage[getKey(Undefined)] = <<backup[1].object.data>>

(* the round trip of every context but the album id "global"                *)
C25_RoundTripOfOtherContexts ==
    [][pc = "exported" /\ pc' = "idle" /\ backup[1].albumId # "global" =>
          LET albumId  == backup[1].albumId
              exported == backup[1].object.data
          IN  /\ importResult' = <<albumId>>
              /\ storage'[getKey(albumId)] = <<exported>>
              /\ exported = loadSession(storage, albumId)
              /\ \A key \in StorageKeys \ {getKey(albumId)} :
                     storage'[key] = storage[key]]_vars

-----------------------------------------------------------------------------
(* The policy of an attempt (checked under PairSpec) *)

PlacementLabel == "CLASSIFYING NEW ASSET"
ExplorationLabel == "EXPLORATION MODE"

\* an attempt of the retry loop is about to draw r
AttemptDue == pc = "select" /\ attempts < MAX_ATTEMPTS

SomeUnrated == Len(UnratedPhotos(ValidPhotos(arenaPhotos))) > 0

(* C26: while some item of the snapshot has zero matches, an attempt takes  *)
(* exploration exactly when r <= 0.1 and placement otherwise, never         *)
(* refinement, and the candidate it draws carries no refinement label;      *)
(* with no such item it takes exploration exactly when r < 0.2 and          *)
(* refinement otherwise, and the candidate carries no placement label.      *)
C26_PolicyByDraw ==
    [][AttemptDue =>
          LET unratedPhotos == UnratedPhotos(ValidPhotos(arenaPhotos))
          IN  IF SomeUnrated
              THEN /\ \A r \in RandomDraws :
                        /\ Policy(unratedPhotos, r) \in {"placement", "exploration"}
                        /\ Policy(unratedPhotos, r) = "exploration" <=> r <= 100
                   /\ ctx' \in {PlacementLabel, ExplorationLabel, Null}
                   /\ ctx' = Null => pc' = "explore"
              ELSE /\ \A r \in RandomDraws :
                        /\ Policy(unratedPhotos, r) \in {"exploration", "refinement"}
                        /\ Policy(unratedPhotos, r) = "exploration" <=> r < 200
                   /\ ctx' \in RefinementLabels \cup {ExplorationLabel, Null}
                   /\ ctx' = Null => pc' = "explore"]_vars

\* an exploration pair is presented from a snapshot that holds an item
\* with zero matches and an item that has played
C26_Witness ==
    /\ SomeUnrated
    /\ \E i \in 1..Len(rankedPhotos) : rankedPhotos[i].matches > 0
    /\ outcome = "pair"
    /\ Len(candidate) = 2
    /\ ctx = ExplorationLabel
    /\ battleContext = ExplorationLabel

\* a refinement pair is presented from a snapshot in which every item has
\* played, after a candidate of the same call was passed over
C26_RefinementReached ==
    /\ ~SomeUnrated
    /\ attempts >= 2
    /\ outcome = "pair"
    /\ ctx \in RefinementLabels

-----------------------------------------------------------------------------
(* The safety fallback of selectNextPair (checked under PairSpec) *)

FallbackLabel == "FALLBACK"

PolicyLabels == {PlacementLabel, ExplorationLabel} \cup RefinementLabels

(* C27: the retry loop never runs out of attempts with nothing taken: no    *)
(* presented pair and no candidate carries the label FALLBACK, the loop is  *)
(* never left with its attempts used up, and a call that ended with a pair  *)
(* presents the candidate of its last attempt under that candidate's label. *)
C27_FallbackUnreachable ==
    /\ battleContext # FallbackLabel
    /\ ctx # FallbackLabel
    /\ pc = "select" => attempts < MAX_ATTEMPTS
    /\ outcome = "pair" =>
          /\ Len(candidate) = 2
          /\ ctx \in PolicyLabels
          /\ battleContext = ctx
          /\ currentPair \in {<<candidate[1], candidate[2]>>,
                              <<candidate[2], candidate[1]>>}

\* a call that passed over four candidates and took the fifth, a repeat of
\* the remembered pair, under the label of the policy that drew it
C27_Witness ==
    /\ outcome = "pair"
    /\ attempts = MAX_ATTEMPTS
    /\ battleContext \in PolicyLabels
    /\ Len(rankedPhotos) = 2
    /\ lastPairRef = {currentPair[1].id, currentPair[2].id}

-----------------------------------------------------------------------------
(* Votes per presented pair (checked under Spec) *)

\* the event the step has put at the end of the log
LastEvent == matchHistory'[Len(matchHistory')]

\* the step shows a pair where none, or another one, was shown
PairPresented == currentPair' # NoPair /\ currentPair' # currentPair

(* C28: a pair is presented only where none is shown and outside a          *)
(* transition, and stays until it is withdrawn; a step that lengthens the   *)
(* log of the arena appends one event, is taken outside a transition with   *)
(* the pair shown, begins the transition, keeps the pair, and its event     *)
(* names one item of the pair as winner and the other as loser, two         *)
(* different ids; during a transition the log never grows and the pair      *)
(* stays, and the transition ends only as the pair is withdrawn.  So        *)
(* between two presentations at most one event is appended.                 *)
C28_OneVotePerPair ==
    [][/\ PairPresented => currentPair = NoPair /\ ~isTransitioning'
       /\ (appState = "BATTLE" /\ Len(matchHistory') > Len(matchHistory)) =>
              /\ AppendsOne
              /\ ChoiceAccepted(currentPair, isTransitioning)
              /\ isTransitioning'
              /\ currentPair' = currentPair
              /\ \E side \in {1, 2} :
                     /\ LastEvent.winnerId = currentPair[side].id
                     /\ LastEvent.loserId = currentPair[3 - side].id
              /\ LastEvent.winnerId # LastEvent.loserId
       /\ isTransitioning => currentPair # NoPair
       /\ (isTransitioning /\ isTransitioning') =>
              /\ Len(matchHistory') <= Len(matchHistory)
              /\ currentPair' = currentPair
       /\ (isTransitioning /\ ~isTransitioning') => currentPair' = NoPair]_vars

(* the transition of a vote on a pair whose two items the log's earlier     *)
(* event names as well: the pair shown has added one event to the log       *)
C28_Witness ==
    /\ isTransitioning
    /\ timerPending
    /\ currentPair # NoPair
    /\ Len(matchHistory) = 2
    /\ trail.phase = "voted"
    /\ trail.log = <<matchHistory[1]>>
    /\ \A i \in 1..2 :
           {matchHistory[i].winnerId, matchHistory[i].loserId}
               = {currentPair[1].id, currentPair[2].id}

-----------------------------------------------------------------------------
(* Specification of a mounted arena that runs on: the app in BATTLE on two  *)
(* or three photos, the user voting and undoing, no navigation.  The timer  *)
(* fires, effects and the selection run on, and the inner loop of the       *)
(* exploration draw eventually draws a second index that differs.           *)

LiveInit ==
    /\ pc = "idle"
    /\ appState = "BATTLE"
    /\ rawPhotos \in {photos \in PhotoLists : Len(photos) >= 2}
    /\ matchHistory \in StoredLogs
    /\ rankedPhotos = RankingEffect(rawPhotos, matchHistory, <<>>)
    /\ effectDue = TRUE
    /\ trail = NoTrail
    /\ ArenaIdle
    /\ activeSessionId = Undefined
    /\ storage = PersistenceEffect(EmptyStorage, appState, Undefined, matchHistory)
    /\ lastSave = SaveCall(<<>>, appState, Undefined, matchHistory)
    /\ backup = <<>>
    /\ importResult = <<>>

LiveNext ==
    \/ HandleChoice
    \/ TransitionTimer
    \/ HandleUndo
    \/ PairEffect
    \/ SelectAttempt
    \/ ExploreRedraw

\* the inner loop of the exploration draw ends
ExploreLeaves == ExploreRedraw /\ pc' # "explore"

LiveSpec ==
    /\ LiveInit
    /\ [][LiveNext]_vars
    /\ WF_vars(TransitionTimer)
    /\ WF_vars(PairEffect)
    /\ WF_vars(SelectAttempt)
    /\ WF_vars(ExploreLeaves)

(* C29: in a mounted arena whose snapshot holds two items or more a pair    *)
(* is eventually presented; after an accepted vote the transition           *)
(* eventually ends, and a pair is eventually presented outside any          *)
(* transition, with or without undos in between.                            *)
C29_Progress ==
    /\ (Len(rankedPhotos) >= 2 /\ currentPair = NoPair) ~> (currentPair # NoPair)
    /\ isTransitioning ~> ~isTransitioning
    /\ isTransitioning ~> (currentPair # NoPair /\ ~isTransitioning /\ outcome = "pair")

\* a pair presented after the transition of a vote that was undone
C29_Witness ==
    /\ trail.phase = "undone"
    /\ ~isTransitioning
    /\ ~timerPending
    /\ currentPair # NoPair
    /\ pc = "idle"
    /\ outcome = "pair"

-----------------------------------------------------------------------------
(* The comparison count (checked under ReplaySpec) *)

RECURSIVE Total(_)
Total(counts) == IF counts = <<>> THEN 0 ELSE Head(counts) + Total(Tail(counts))

\* photos.reduce((acc, p) => acc + p.matches, 0)
SumOfMatches(photos) == Total([i \in 1..Len(photos) |-> photos[i].matches])
SumOfWins(photos) == Total([i \in 1..Len(photos) |-> photos[i].wins])
SumOfLosses(photos) == Total([i \in 1..Len(photos) |-> photos[i].losses])

\* the events of the log whose winnerId and loserId are both ids of items
AppliedEvents == Len(KnownOnly(matchHistory))

(* C30: after a replay the matches of all items sum to twice the number of  *)
(* events whose two ids are known, the wins and the losses each sum to that *)
(* number, and half the sum of matches, which the leaderboard shows, is     *)
(* that number exactly; events naming one item twice count like the others. *)
C30_ComparisonCount ==
    Replayed =>
        /\ SumOfMatches(rankedPhotos) = 2 * AppliedEvents
        /\ SumOfWins(rankedPhotos) = AppliedEvents
        /\ SumOfLosses(rankedPhotos) = AppliedEvents
        /\ SumOfMatches(rankedPhotos) % 2 = 0
        /\ SumOfMatches(rankedPhotos) \div 2 = AppliedEvents

(* a replay of a log of three events or more, all applied, that holds an    *)
(* event naming one item twice and an event between two items               *)
C30_Witness ==
    /\ Replayed
    /\ Len(rankedPhotos) >= 2
    /\ Len(matchHistory) >= 3
    /\ \E i, j \in 1..Len(matchHistory) :
           /\ SelfMatch(matchHistory[i]) /\ ~UnknownParticipant(matchHistory[i])
           /\ ~SelfMatch(matchHistory[j]) /\ ~UnknownParticipant(matchHistory[j])
    /\ AppliedEvents = Len(matchHistory)
    /\ SumOfMatches(rankedPhotos) = 2 * Len(matchHistory)
=============================================================================
